---- MODULE Spec2Model ----
(***************************************************************************)
(* A model of the Tetris state-transition engine of JohnBanh/TetrisGame:   *)
(* the seeded bag randomizer, the block geometry, the movement and hold    *)
(* commands, the locking / line-clear engine and the reducer of main.ts.   *)
(* Coordinates are kept in canvas pixels, as in the source.                *)
(***************************************************************************)
EXTENDS Integers, Naturals, Sequences, FiniteSets, TLC

VARIABLES gameEnd, fallingBlock, placedBlocks, level, linesCleared, score,
          highScore, nextBlock, heldBlock, blockHeldDuringFall, currentSeed,
          currentBag, levelSubject, lastAction, pc, devs

stateVars == <<gameEnd, fallingBlock, placedBlocks, level, linesCleared, score,
               highScore, nextBlock, heldBlock, blockHeldDuringFall,
               currentSeed, currentBag, levelSubject>>

vars == <<gameEnd, fallingBlock, placedBlocks, level, linesCleared, score,
          highScore, nextBlock, heldBlock, blockHeldDuringFall, currentSeed,
          currentBag, levelSubject, lastAction, pc, devs>>

(***************************************************************************)
(* Bounds of the exploration (not program constants).                      *)
(***************************************************************************)
\* commands the environment may issue after leaving the recorded game
MaxDevs == 3
\* seeds 0..MaxSeed are inputs of the bag specification
MaxSeed == 12
\* bags of up to MaxBagLen distinct kinds are inputs of the bag specification
MaxBagLen == 2
\* operations on the bag in one run of the bag specification
MaxDraws == 9
\* columns and rows by which a block under test is moved
MaxShift == 1
\* rows prepared at the bottom of the grid in the lock specification
MaxWellDepth == 4

(***************************************************************************)
(* types.ts: configuration constants                                       *)
(***************************************************************************)
CANVAS_WIDTH == 200
CANVAS_HEIGHT == 400
GRID_WIDTH == 10
GRID_HEIGHT == 20
LEVEL_UP_LINES == 5
WIDTH == CANVAS_WIDTH \div GRID_WIDTH
HEIGHT == CANVAS_HEIGHT \div GRID_HEIGHT

\* enum BlockType (numeric enum, declaration order)
SQUARE == 0
L_SHAPE1 == 1
L_SHAPE2 == 2
T_SHAPE == 3
LINE == 4
Z_SHAPE1 == 5
Z_SHAPE2 == 6
BlockType == 0..6

(***************************************************************************)
(* utility.ts: class RNG.  JavaScript numbers are IEEE-754 doubles: the    *)
(* product a * seed (up to 62 bits) and the sum with c are each rounded to *)
(* 53 significant bits (round to nearest, ties to even) before % m.  A     *)
(* number is carried as <<hi, lo>> = hi * 2^31 + lo to stay inside TLC's   *)
(* 32-bit integers.                                                        *)
(***************************************************************************)
RNG_a == 1738123921
RNG_c == 15959
\* RNG.m - 1 = 2^31 - 1 (RNG.m = 0x80000000 itself is written RNG_m1 + 1)
RNG_m1 == 2147483647

Limb == 4096

\* the exact product a * seed, as <<hi, lo>>
Product(seed) ==
  LET a0 == RNG_a % Limb
      a1 == (RNG_a \div Limb) % Limb
      a2 == RNG_a \div (Limb * Limb)
      s0 == seed % Limb
      s1 == (seed \div Limb) % Limb
      s2 == seed \div (Limb * Limb)
      c0 == a0 * s0
      c1 == a0 * s1 + a1 * s0 + (c0 \div Limb)
      c2 == a0 * s2 + a1 * s1 + a2 * s0 + (c1 \div Limb)
      c3 == a1 * s2 + a2 * s1 + (c2 \div Limb)
      c4 == a2 * s2 + (c3 \div Limb)
      d0 == c0 % Limb
      d1 == c1 % Limb
      d2 == c2 % Limb
      d3 == c3 % Limb
      d4 == c4 % Limb
      d5 == c4 \div Limb
  IN  << (d2 \div 128) + d3 * 32 + d4 * 131072 + d5 * 536870912,
         d0 + d1 * Limb + (d2 % 128) * (Limb * Limb) >>

\* 2^e
RECURSIVE Pow2(_)
Pow2(e) == IF e = 0 THEN 1 ELSE 2 * Pow2(e - 1)

\* the number of bits a double cannot keep of <<hi, lo>>: 0 below 2^53
RECURSIVE LostBits(_)
LostBits(hi) == IF hi < 4194304 THEN 0 ELSE 1 + LostBits(hi \div 2)

\* <<hi, lo>> rounded to a double (53 significant bits, ties to even)
RoundDouble(n) ==
  LET hi == n[1]
      lo == n[2]
      u == Pow2(LostBits(hi))
      r == lo % u
      base == lo - r
      up == (2 * r > u) \/ (2 * r = u /\ (lo \div u) % 2 = 1)
  IN  IF u = 1 \/ ~up THEN <<hi, base>>
      ELSE IF base = (RNG_m1 - u) + 1 THEN <<hi + 1, 0>>
      ELSE <<hi, base + u>>

\* <<hi, lo>> + c, exact
AddC(n) ==
  IF n[2] > RNG_m1 - RNG_c
    THEN <<n[1] + 1, n[2] - ((RNG_m1 - RNG_c) + 1)>>
    ELSE <<n[1], n[2] + RNG_c>>

\* hash with a fault: integer arithmetic, without the rounding of doubles
hashExact(seed) == AddC(Product(seed))[2]

\* RNG.hash = (seed) => (RNG.a * seed + RNG.c) % RNG.m
hash(seed) == RoundDouble(AddC(RoundDouble(Product(seed))))[2]

\* Math.floor(RNG.scale(h) * n) for n in 0..7, where scale(h) = h / (m - 1).
\* h * n = xh * 2^31 + xl, and floor((xh * 2^31 + xl) / (2^31 - 1)) is
\* xh, plus one when xh + xl reaches 2^31 - 1.  The two double roundings of
\* the source cannot move the quotient across an integer: 2^31 - 1 is prime,
\* so h * n / (m - 1) is an integer only for h = 0 and h = m - 1 and is
\* otherwise at least 2^-31 away from one.
scaleIndex(h, n) ==
  LET hh == h \div 65536
      hl == h % 65536
      xh0 == (n * hh) \div 32768
      l0 == ((n * hh) % 32768) * 65536
      carry == n * hl > RNG_m1 - l0
      xh == IF carry THEN xh0 + 1 ELSE xh0
      xl == IF carry THEN n * hl - ((RNG_m1 - l0) + 1) ELSE l0 + n * hl
  IN  IF xl >= RNG_m1 - xh THEN xh + 1 ELSE xh

(***************************************************************************)
(* types.ts: block geometry                                                *)
(***************************************************************************)
Cell(x, y) == [x |-> x, y |-> y]

squareBlock ==
  [cells |-> << Cell(CANVAS_WIDTH \div 2, 0),
                Cell(CANVAS_WIDTH \div 2 - WIDTH, 0),
                Cell(CANVAS_WIDTH \div 2, HEIGHT),
                Cell(CANVAS_WIDTH \div 2 - WIDTH, HEIGHT) >>,
   colour |-> "#FFFF00", type |-> SQUARE]

lShapeBlock1 ==
  [cells |-> << Cell(CANVAS_WIDTH \div 2 - 2 * WIDTH, HEIGHT),
                Cell(CANVAS_WIDTH \div 2 - WIDTH, HEIGHT),
                Cell(CANVAS_WIDTH \div 2 - 2 * WIDTH, 0),
                Cell(CANVAS_WIDTH \div 2, HEIGHT) >>,
   colour |-> "#0000FF", type |-> L_SHAPE1]

lShapeBlock2 ==
  [cells |-> << Cell(CANVAS_WIDTH \div 2 - 2 * WIDTH, HEIGHT),
                Cell(CANVAS_WIDTH \div 2 - WIDTH, HEIGHT),
                Cell(CANVAS_WIDTH \div 2, 0),
                Cell(CANVAS_WIDTH \div 2, HEIGHT) >>,
   colour |-> "#FFA500", type |-> L_SHAPE2]

tShapeBlock ==
  [cells |-> << Cell(CANVAS_WIDTH \div 2 - 2 * WIDTH, HEIGHT),
                Cell(CANVAS_WIDTH \div 2 - WIDTH, HEIGHT),
                Cell(CANVAS_WIDTH \div 2, HEIGHT),
                Cell(CANVAS_WIDTH \div 2 - WIDTH, 0) >>,
   colour |-> "#FF00FF", type |-> T_SHAPE]

zShapeBlock1 ==
  [cells |-> << Cell(CANVAS_WIDTH \div 2 - 2 * WIDTH, HEIGHT),
                Cell(CANVAS_WIDTH \div 2 - WIDTH, HEIGHT),
                Cell(CANVAS_WIDTH \div 2, 0),
                Cell(CANVAS_WIDTH \div 2 - WIDTH, 0) >>,
   colour |-> "#00FF00", type |-> Z_SHAPE1]

zShapeBlock2 ==
  [cells |-> << Cell(CANVAS_WIDTH \div 2 - 2 * WIDTH, 0),
                Cell(CANVAS_WIDTH \div 2 - WIDTH, HEIGHT),
                Cell(CANVAS_WIDTH \div 2, HEIGHT),
                Cell(CANVAS_WIDTH \div 2 - WIDTH, 0) >>,
   colour |-> "#FF0000", type |-> Z_SHAPE2]

lineBlock ==
  [cells |-> << Cell(CANVAS_WIDTH \div 2 - WIDTH, 0),
                Cell(CANVAS_WIDTH \div 2, 0),
                Cell(CANVAS_WIDTH \div 2 + WIDTH, 0),
                Cell(CANVAS_WIDTH \div 2 - 2 * WIDTH, 0) >>,
   colour |-> "#00FFFF", type |-> LINE]

blockConfigurations ==
  [t \in BlockType |->
     CASE t = SQUARE -> squareBlock
       [] t = L_SHAPE1 -> lShapeBlock1
       [] t = L_SHAPE2 -> lShapeBlock2
       [] t = T_SHAPE -> tShapeBlock
       [] t = Z_SHAPE1 -> zShapeBlock1
       [] t = Z_SHAPE2 -> zShapeBlock2
       [] t = LINE -> lineBlock]

createFallingBlock(type) == blockConfigurations[type]

emptyGrid ==
  [r \in 1..GRID_HEIGHT |->
     [c \in 1..GRID_WIDTH |-> [placed |-> FALSE, colour |-> ""]]]

(***************************************************************************)
(* utility.ts: the bag.  JavaScript arrays are 0-based: At(a, i) is a[i],  *)
(* and reading outside the array gives undefined (here -1).                *)
(***************************************************************************)
undefinedType == 0 - 1

At(a, i) == IF i + 1 \in DOMAIN a THEN a[i + 1] ELSE undefinedType

\* swapped with a fault: the element at randomIndex is not replaced
swappedHalf(acc, remaining, randomIndex) ==
  [index \in 1..Len(acc) |->
     IF index - 1 = remaining - 1 THEN At(acc, randomIndex)
     ELSE acc[index]]

\* acc.map(...): acc with the elements at remaining - 1 and randomIndex
\* exchanged
swapped(acc, remaining, randomIndex) ==
  [index \in 1..Len(acc) |->
     IF index - 1 = remaining - 1 THEN At(acc, randomIndex)
     ELSE IF index - 1 = randomIndex THEN At(acc, remaining - 1)
     ELSE acc[index]]

\* the reduce callback of shuffleBag: one swap, for currentIndex
shuffleStep(acc, seed, currentIndex) ==
  swapped(acc, Len(acc) - currentIndex,
          scaleIndex(hash(seed), Len(acc) - currentIndex))

\* the accumulator and the seed after the callbacks for 0..currentIndex-1
RECURSIVE shuffleAcc(_, _)
shuffleAcc(seed, currentIndex) ==
  IF currentIndex = 0
    THEN [acc |-> <<SQUARE, L_SHAPE1, L_SHAPE2, T_SHAPE, LINE, Z_SHAPE1,
                    Z_SHAPE2>>,
          seed |-> seed]
    ELSE LET p == shuffleAcc(seed, currentIndex - 1)
         IN  [acc |-> shuffleStep(p.acc, p.seed, currentIndex - 1),
              seed |-> hash(p.seed)]

shuffleBag(seed) == shuffleAcc(seed, 7).acc

\* the result of a draw with a fault: the first element leaves the bag
drawnAtPopFirst(currentBag0, randomIndex, newSeed) ==
  [drawnBlock |-> createFallingBlock(At(currentBag0, randomIndex)),
   newSeed |-> newSeed,
   newBag |-> SubSeq(currentBag0, 2, Len(currentBag0))]

\* the result of a draw: the block of currentBag[randomIndex], and the bag
\* without that element
drawnAt(currentBag0, randomIndex, newSeed) ==
  [drawnBlock |-> createFallingBlock(At(currentBag0, randomIndex)),
   newSeed |-> newSeed,
   newBag |-> SubSeq(currentBag0, 1, randomIndex)
                \o SubSeq(currentBag0, randomIndex + 2, Len(currentBag0))]

\* drawFromBag after its reshuffle test
drawFrom(seed, currentBag0) ==
  drawnAt(currentBag0, scaleIndex(hash(seed), Len(currentBag0)), hash(seed))

drawFromBag(seed, currentBag0) ==
  IF Len(currentBag0) = 0
    THEN drawFrom(hash(seed), shuffleBag(seed))
    ELSE drawFrom(seed, currentBag0)

(***************************************************************************)
(* types.ts: initialState (with the start value of the level$ subject)     *)
(***************************************************************************)
\* initialState, given the results of the two start-up draws
initialStateOf(d1, d2) ==
  [gameEnd |-> FALSE,
   fallingBlock |-> d1.drawnBlock,
   placedBlocks |-> emptyGrid,
   level |-> 1,
   linesCleared |-> 0,
   score |-> 0,
   highScore |-> 0,
   nextBlock |-> d2.drawnBlock,
   heldBlock |-> <<>>,
   blockHeldDuringFall |-> FALSE,
   currentSeed |-> d2.newSeed,
   currentBag |-> shuffleBag(d2.newSeed),
   levelSubject |-> 1]

\* the second start-up draw
secondDraw(d1) == initialStateOf(d1, drawFromBag(d1.newSeed, d1.newBag))

initialState == secondDraw(drawFromBag(159, shuffleBag(159)))

(***************************************************************************)
(* utility.ts: collision checking, rotation, movement                      *)
(***************************************************************************)
\* placedBlocks[yIndex] is defined (a row of the grid)
RowDefined(grid, yIndex) == yIndex + 1 \in DOMAIN grid

\* placedBlocks[yIndex][xIndex] is defined
CellDefined(grid, yIndex, xIndex) == xIndex + 1 \in DOMAIN grid[yIndex + 1]

\* placedBlocks[yIndex][xIndex].placed
Placed(grid, yIndex, xIndex) == grid[yIndex + 1][xIndex + 1].placed

\* isValidPosition with a fault: the vertical boundaries are not checked
isValidPositionNoRows(block, grid) ==
  LET invalid(cell) ==
        IF cell.x < 0 \/ cell.x >= CANVAS_WIDTH THEN TRUE
        ELSE LET yIndex == cell.y \div HEIGHT
                 xIndex == cell.x \div WIDTH
             IN  /\ RowDefined(grid, yIndex)
                 /\ CellDefined(grid, yIndex, xIndex)
                 /\ Placed(grid, yIndex, xIndex)
  IN  Len(SelectSeq(block.cells, invalid)) = 0

isValidPosition(block, grid) ==
  LET invalid(cell) ==
        IF cell.x < 0 \/ cell.x >= CANVAS_WIDTH THEN TRUE
        ELSE IF cell.y < 0 \/ cell.y >= CANVAS_HEIGHT THEN TRUE
        ELSE LET yIndex == cell.y \div HEIGHT
                 xIndex == cell.x \div WIDTH
             IN  /\ RowDefined(grid, yIndex)
                 /\ CellDefined(grid, yIndex, xIndex)
                 /\ Placed(grid, yIndex, xIndex)
  IN  Len(SelectSeq(block.cells, invalid)) = 0

isHorizontalLineBlock(xCoords) == Cardinality(xCoords) = 4

\* generateRotatedCells with a fault: every block is turned the same way
generateRotatedCellsOneWay(cells, pivot, isLineHorizontal) ==
  [i \in DOMAIN cells |->
     LET relativeX == cells[i].x - pivot.x
         relativeY == cells[i].y - pivot.y
     IN  Cell(pivot.x - relativeY, pivot.y + relativeX)]

generateRotatedCells(cells, pivot, isLineHorizontal) ==
  [i \in DOMAIN cells |->
     LET relativeX == cells[i].x - pivot.x
         relativeY == cells[i].y - pivot.y
     IN  IF isLineHorizontal
           THEN Cell(pivot.x + relativeY, pivot.y - relativeX)
           ELSE Cell(pivot.x - relativeY, pivot.y + relativeX)]

lineBlockWallKickTests ==
  << Cell(0, 0), Cell(0 - 1, 0), Cell(2, 0), Cell(0 - 2, 0),
     Cell(0, 1), Cell(0, 0 - 1), Cell(0 - 1, 2), Cell(1, 0 - 2) >>

standardWallKickTests ==
  << Cell(0, 0), Cell(1, 0), Cell(0 - 1, 0), Cell(2, 0), Cell(0 - 2, 0) >>

\* the block shifted by a wall-kick test
kickedBlock(rotatedBlock, test) ==
  [rotatedBlock EXCEPT !.cells =
     [i \in DOMAIN rotatedBlock.cells |->
        Cell(rotatedBlock.cells[i].x + test.x * WIDTH,
             rotatedBlock.cells[i].y + test.y * HEIGHT)]]

\* rotateBlock with a fault: the turned cells are not tried in place, only
\* moved by the offsets that follow (0,0) in the list
rotateBlockKicksOnly(s) ==
  LET cells == s.fallingBlock.cells
      xCoords == {cells[i].x : i \in DOMAIN cells}
      yCoords == {cells[i].y : i \in DOMAIN cells}
      pivot == cells[2]
      isLineBlockHorizontal == isHorizontalLineBlock(xCoords)
      newCells == generateRotatedCells(cells, pivot, isLineBlockHorizontal)
      rotatedBlock == [s.fallingBlock EXCEPT !.cells = newCells]
      testsToUse == IF isLineBlockHorizontal THEN lineBlockWallKickTests
                    ELSE standardWallKickTests
      valid(test) == isValidPosition(kickedBlock(rotatedBlock, test),
                                     s.placedBlocks)
      found == SelectSeq(Tail(testsToUse), valid)
  IN  IF Cardinality(xCoords) = 2 /\ Cardinality(yCoords) = 2 THEN s
      ELSE IF Len(found) > 0
        THEN [s EXCEPT !.fallingBlock = kickedBlock(rotatedBlock, found[1])]
      ELSE s

\* rotateBlock with a fault: the last valid wall kick is committed, not the
\* first
rotateBlockLastKick(s) ==
  LET cells == s.fallingBlock.cells
      xCoords == {cells[i].x : i \in DOMAIN cells}
      yCoords == {cells[i].y : i \in DOMAIN cells}
      pivot == cells[2]
      isLineBlockHorizontal == isHorizontalLineBlock(xCoords)
      newCells == generateRotatedCells(cells, pivot, isLineBlockHorizontal)
      rotatedBlock == [s.fallingBlock EXCEPT !.cells = newCells]
      testsToUse == IF isLineBlockHorizontal THEN lineBlockWallKickTests
                    ELSE standardWallKickTests
      valid(test) == isValidPosition(kickedBlock(rotatedBlock, test),
                                     s.placedBlocks)
      found == SelectSeq(testsToUse, valid)
  IN  IF Cardinality(xCoords) = 2 /\ Cardinality(yCoords) = 2 THEN s
      ELSE IF isValidPosition(rotatedBlock, s.placedBlocks)
        THEN [s EXCEPT !.fallingBlock = rotatedBlock]
      ELSE IF Len(found) > 0
        THEN [s EXCEPT !.fallingBlock =
                         kickedBlock(rotatedBlock, found[Len(found)])]
      ELSE s

\* rotateBlock with a fault: no early return for the square
rotateBlockSquareToo(s) ==
  LET cells == s.fallingBlock.cells
      xCoords == {cells[i].x : i \in DOMAIN cells}
      pivot == cells[2]
      isLineBlockHorizontal == isHorizontalLineBlock(xCoords)
      newCells == generateRotatedCells(cells, pivot, isLineBlockHorizontal)
      rotatedBlock == [s.fallingBlock EXCEPT !.cells = newCells]
      testsToUse == IF isLineBlockHorizontal THEN lineBlockWallKickTests
                    ELSE standardWallKickTests
      valid(test) == isValidPosition(kickedBlock(rotatedBlock, test),
                                     s.placedBlocks)
      found == SelectSeq(testsToUse, valid)
  IN  IF isValidPosition(rotatedBlock, s.placedBlocks)
        THEN [s EXCEPT !.fallingBlock = rotatedBlock]
      ELSE IF Len(found) > 0
        THEN [s EXCEPT !.fallingBlock = kickedBlock(rotatedBlock, found[1])]
      ELSE s

rotateBlock(s) ==
  LET cells == s.fallingBlock.cells
      xCoords == {cells[i].x : i \in DOMAIN cells}
      yCoords == {cells[i].y : i \in DOMAIN cells}
      pivot == cells[2]
      isLineBlockHorizontal == isHorizontalLineBlock(xCoords)
      newCells == generateRotatedCells(cells, pivot, isLineBlockHorizontal)
      rotatedBlock == [s.fallingBlock EXCEPT !.cells = newCells]
      testsToUse == IF isLineBlockHorizontal THEN lineBlockWallKickTests
                    ELSE standardWallKickTests
      valid(test) == isValidPosition(kickedBlock(rotatedBlock, test),
                                     s.placedBlocks)
      found == SelectSeq(testsToUse, valid)
  IN  IF Cardinality(xCoords) = 2 /\ Cardinality(yCoords) = 2 THEN s
      ELSE IF isValidPosition(rotatedBlock, s.placedBlocks)
        THEN [s EXCEPT !.fallingBlock = rotatedBlock]
      ELSE IF Len(found) > 0
        THEN [s EXCEPT !.fallingBlock = kickedBlock(rotatedBlock, found[1])]
      ELSE s

\* direction is "left" or "right"
offsetX(direction) == IF direction = "left" THEN 0 - WIDTH ELSE WIDTH

\* canMove with a faulty test: only the canvas edges stop the block
canMoveEdgesOnly(direction, s) ==
  LET invalid(cell) ==
        LET newX == cell.x + offsetX(direction)
        IN  newX < 0 \/ newX >= CANVAS_WIDTH
  IN  Len(SelectSeq(s.fallingBlock.cells, invalid)) = 0

canMove(direction, s) ==
  LET invalid(cell) ==
        LET newX == cell.x + offsetX(direction)
        IN  IF newX < 0 \/ newX >= CANVAS_WIDTH THEN TRUE
            ELSE LET yIndex == cell.y \div HEIGHT
                     xIndex == newX \div WIDTH
                 IN  /\ RowDefined(s.placedBlocks, yIndex)
                     /\ Placed(s.placedBlocks, yIndex, xIndex)
  IN  Len(SelectSeq(s.fallingBlock.cells, invalid)) = 0

\* move with a fault: the block is moved without asking canMove
moveUnchecked(direction, s) ==
  [s EXCEPT !.fallingBlock.cells =
     [i \in DOMAIN s.fallingBlock.cells |->
        Cell(s.fallingBlock.cells[i].x + offsetX(direction),
             s.fallingBlock.cells[i].y)]]

move(direction, s) ==
  IF canMove(direction, s)
    THEN [s EXCEPT !.fallingBlock.cells =
            [i \in DOMAIN s.fallingBlock.cells |->
               Cell(s.fallingBlock.cells[i].x + offsetX(direction),
                    s.fallingBlock.cells[i].y)]]
    ELSE s

moveLeft(s) == move("left", s)
moveRight(s) == move("right", s)

\* canMoveDown with a faulty test: only the canvas bottom stops the block
canMoveDownBottomOnly(state) ==
  LET invalid(cell) == cell.y + HEIGHT >= CANVAS_HEIGHT
  IN  Len(SelectSeq(state.fallingBlock.cells, invalid)) = 0

canMoveDown(state) ==
  LET invalid(cell) ==
        LET newY == cell.y + HEIGHT
        IN  IF newY >= CANVAS_HEIGHT THEN TRUE
            ELSE LET yIndex == newY \div HEIGHT
                     xIndex == cell.x \div WIDTH
                 IN  /\ RowDefined(state.placedBlocks, yIndex)
                     /\ Placed(state.placedBlocks, yIndex, xIndex)
  IN  Len(SelectSeq(state.fallingBlock.cells, invalid)) = 0

moveBlockDown(state) ==
  [state EXCEPT !.fallingBlock.cells =
     [i \in DOMAIN state.fallingBlock.cells |->
        Cell(state.fallingBlock.cells[i].x,
             state.fallingBlock.cells[i].y + HEIGHT)]]

(***************************************************************************)
(* utility.ts: locking and line clearing                                   *)
(***************************************************************************)
\* clearFullRows with a fault: the empty rows are put below the kept rows
clearFullRowsBelow(s) ==
  LET notFull(row) ==
        Cardinality({c \in DOMAIN row : row[c].placed}) # Len(row)
      filteredPlacedBlocks == SelectSeq(s.placedBlocks, notFull)
      reducedLinesCleared == Len(s.placedBlocks) - Len(filteredPlacedBlocks)
      emptyRows ==
        [r \in 1..reducedLinesCleared |->
           [c \in 1..GRID_WIDTH |-> [placed |-> FALSE, colour |-> ""]]]
      updatedPlacedBlocks == filteredPlacedBlocks \o emptyRows
      newLinesCleared == s.linesCleared + reducedLinesCleared
      levelUp == newLinesCleared >= LEVEL_UP_LINES
      min6 == IF s.level + 1 < 6 THEN s.level + 1 ELSE 6
  IN  [s EXCEPT !.placedBlocks = updatedPlacedBlocks,
                !.score = s.score + reducedLinesCleared * 100,
                !.level = IF levelUp THEN min6 ELSE s.level,
                !.linesCleared = IF levelUp THEN 0 ELSE newLinesCleared,
                !.levelSubject = IF levelUp THEN min6 ELSE s.levelSubject]

\* clearFullRows with a fault: the level is not capped
clearFullRowsNoCap(s) ==
  LET notFull(row) ==
        Cardinality({c \in DOMAIN row : row[c].placed}) # Len(row)
      filteredPlacedBlocks == SelectSeq(s.placedBlocks, notFull)
      reducedLinesCleared == Len(s.placedBlocks) - Len(filteredPlacedBlocks)
      emptyRows ==
        [r \in 1..reducedLinesCleared |->
           [c \in 1..GRID_WIDTH |-> [placed |-> FALSE, colour |-> ""]]]
      updatedPlacedBlocks == emptyRows \o filteredPlacedBlocks
      newLinesCleared == s.linesCleared + reducedLinesCleared
      levelUp == newLinesCleared >= LEVEL_UP_LINES
  IN  [s EXCEPT !.placedBlocks = updatedPlacedBlocks,
                !.score = s.score + reducedLinesCleared * 100,
                !.level = IF levelUp THEN s.level + 1 ELSE s.level,
                !.linesCleared = IF levelUp THEN 0 ELSE newLinesCleared,
                !.levelSubject = IF levelUp THEN s.level + 1
                                 ELSE s.levelSubject]

\* clearFullRows with a fault: the full rows are counted and left in the
\* grid
clearFullRowsKept(s) ==
  LET notFull(row) ==
        Cardinality({c \in DOMAIN row : row[c].placed}) # Len(row)
      filteredPlacedBlocks == SelectSeq(s.placedBlocks, notFull)
      reducedLinesCleared == Len(s.placedBlocks) - Len(filteredPlacedBlocks)
      newLinesCleared == s.linesCleared + reducedLinesCleared
      levelUp == newLinesCleared >= LEVEL_UP_LINES
      min6 == IF s.level + 1 < 6 THEN s.level + 1 ELSE 6
  IN  [s EXCEPT !.score = s.score + reducedLinesCleared * 100,
                !.level = IF levelUp THEN min6 ELSE s.level,
                !.linesCleared = IF levelUp THEN 0 ELSE newLinesCleared,
                !.levelSubject = IF levelUp THEN min6 ELSE s.levelSubject]

clearFullRows(s) ==
  LET notFull(row) ==
        Cardinality({c \in DOMAIN row : row[c].placed}) # Len(row)
      filteredPlacedBlocks == SelectSeq(s.placedBlocks, notFull)
      reducedLinesCleared == Len(s.placedBlocks) - Len(filteredPlacedBlocks)
      emptyRows ==
        [r \in 1..reducedLinesCleared |->
           [c \in 1..GRID_WIDTH |-> [placed |-> FALSE, colour |-> ""]]]
      updatedPlacedBlocks == emptyRows \o filteredPlacedBlocks
      newLinesCleared == s.linesCleared + reducedLinesCleared
      levelUp == newLinesCleared >= LEVEL_UP_LINES
      min6 == IF s.level + 1 < 6 THEN s.level + 1 ELSE 6
  IN  [s EXCEPT !.placedBlocks = updatedPlacedBlocks,
                !.score = s.score + reducedLinesCleared * 100,
                !.level = IF levelUp THEN min6 ELSE s.level,
                !.linesCleared = IF levelUp THEN 0 ELSE newLinesCleared,
                !.levelSubject = IF levelUp THEN min6 ELSE s.levelSubject]

\* the grid after merging the cells of the falling block into it
stampedGrid(s) ==
  LET cells == s.fallingBlock.cells
      hit(r, c) == \E i \in DOMAIN cells :
                     /\ cells[i].y \div HEIGHT = r - 1
                     /\ cells[i].x \div WIDTH = c - 1
  IN  [r \in DOMAIN s.placedBlocks |->
         [c \in DOMAIN s.placedBlocks[r] |->
            IF hit(r, c)
              THEN [placed |-> TRUE, colour |-> s.fallingBlock.colour]
              ELSE s.placedBlocks[r][c]]]

\* newState of handleBlockLocking with a fault: the game ends only when
\* every cell of the block is in row 0
lockedStateEvery(s, d) ==
  [s EXCEPT !.gameEnd = \A i \in DOMAIN s.fallingBlock.cells :
                          s.fallingBlock.cells[i].y \div HEIGHT = 0,
            !.fallingBlock = s.nextBlock,
            !.placedBlocks = stampedGrid(s),
            !.nextBlock = d.drawnBlock,
            !.blockHeldDuringFall = FALSE,
            !.currentSeed = d.newSeed,
            !.currentBag = d.newBag]

\* newState of handleBlockLocking, given the result d of its draw
lockedState(s, d) ==
  [s EXCEPT !.gameEnd = \E i \in DOMAIN s.fallingBlock.cells :
                          s.fallingBlock.cells[i].y \div HEIGHT = 0,
            !.fallingBlock = s.nextBlock,
            !.placedBlocks = stampedGrid(s),
            !.nextBlock = d.drawnBlock,
            !.blockHeldDuringFall = FALSE,
            !.currentSeed = d.newSeed,
            !.currentBag = d.newBag]

handleBlockLocking(s) ==
  clearFullRows(lockedState(s, drawFromBag(s.currentSeed, s.currentBag)))

\* the collision test of tick with a fault: only the canvas bottom collides
collisionBottomOnly(s) ==
  LET collision(cell) == cell.y + HEIGHT >= CANVAS_HEIGHT
  IN  Len(SelectSeq(s.fallingBlock.cells, collision)) > 0

\* the collision test of tick
collisionDetected(s) ==
  LET collision(cell) ==
        LET newY == cell.y + HEIGHT
            yIndex == newY \div HEIGHT
            xIndex == cell.x \div WIDTH
        IN  \/ newY >= CANVAS_HEIGHT
            \/ /\ RowDefined(s.placedBlocks, yIndex)
               /\ Placed(s.placedBlocks, yIndex, xIndex)
  IN  Len(SelectSeq(s.fallingBlock.cells, collision)) > 0

\* tick with a fault: a block that does not collide moves down half a row
tickHalfRow(s) ==
  IF collisionDetected(s)
    THEN handleBlockLocking(s)
    ELSE [s EXCEPT !.fallingBlock.cells =
            [i \in DOMAIN s.fallingBlock.cells |->
               Cell(s.fallingBlock.cells[i].x,
                    s.fallingBlock.cells[i].y + HEIGHT \div 2)]]

tick(s) ==
  IF collisionDetected(s)
    THEN handleBlockLocking(s)
    ELSE [s EXCEPT !.fallingBlock.cells =
            [i \in DOMAIN s.fallingBlock.cells |->
               Cell(s.fallingBlock.cells[i].x,
                    s.fallingBlock.cells[i].y + HEIGHT)]]

moveDown(s) == tick(s)

RECURSIVE moveHardDown(_)
moveHardDown(s) ==
  IF canMoveDown(s) THEN moveHardDown(moveBlockDown(s))
  ELSE handleBlockLocking(s)

\* moveGhostBlockToGround with a fault: the ghost block is moved down one
\* row at most
moveGhostBlockOneRow(state, ghostBlock) ==
  IF canMoveDown([state EXCEPT !.fallingBlock = ghostBlock])
    THEN moveBlockDown([state EXCEPT !.fallingBlock = ghostBlock])
           .fallingBlock
    ELSE ghostBlock

RECURSIVE moveGhostBlockToGround(_, _)
moveGhostBlockToGround(state, ghostBlock) ==
  IF canMoveDown([state EXCEPT !.fallingBlock = ghostBlock])
    THEN moveGhostBlockToGround(
           [state EXCEPT !.fallingBlock = ghostBlock],
           moveBlockDown([state EXCEPT !.fallingBlock = ghostBlock])
             .fallingBlock)
    ELSE ghostBlock

getGhostBlockPosition(state) ==
  moveGhostBlockToGround(state, state.fallingBlock)

(***************************************************************************)
(* utility.ts: hold and restart.  heldBlock is optional: <<>> is           *)
(* undefined, <<b>> holds the block b.                                     *)
(***************************************************************************)
\* the state returned by an accepted hold, given the type of the new falling
\* block and d = { drawnBlock, newSeed, newBag }
heldState(s, newFallingBlockType, d) ==
  [s EXCEPT !.fallingBlock = createFallingBlock(newFallingBlockType),
            !.heldBlock = <<createFallingBlock(s.fallingBlock.type)>>,
            !.blockHeldDuringFall = TRUE,
            !.nextBlock = d.drawnBlock,
            !.currentSeed = d.newSeed,
            !.currentBag = d.newBag]

\* holdBlock without the blockHeldDuringFall gate
holdBlockNoGate(s) ==
  IF Len(s.heldBlock) > 0
    THEN heldState(s, s.heldBlock[1].type,
                   [drawnBlock |-> s.nextBlock,
                    newSeed |-> s.currentSeed,
                    newBag |-> s.currentBag])
    ELSE heldState(s, s.nextBlock.type,
                   drawFromBag(s.currentSeed, s.currentBag))

\* holdBlock that draws from the bag also when a block is held
holdBlockAlwaysDraws(s) ==
  IF s.blockHeldDuringFall THEN s
  ELSE IF Len(s.heldBlock) > 0
    THEN heldState(s, s.heldBlock[1].type,
                   drawFromBag(s.currentSeed, s.currentBag))
    ELSE heldState(s, s.nextBlock.type,
                   drawFromBag(s.currentSeed, s.currentBag))

holdBlock(s) ==
  IF s.blockHeldDuringFall THEN s
  ELSE IF Len(s.heldBlock) > 0
    THEN heldState(s, s.heldBlock[1].type,
                   [drawnBlock |-> s.nextBlock,
                    newSeed |-> s.currentSeed,
                    newBag |-> s.currentBag])
    ELSE heldState(s, s.nextBlock.type,
                   drawFromBag(s.currentSeed, s.currentBag))

\* Math.max
max(a, b) == IF a > b THEN a ELSE b

\* the state returned by a restart, given the results of its two draws
restartedState(s, d1, d2) ==
  [initialState EXCEPT !.highScore = max(s.score, s.highScore),
                       !.fallingBlock = d1.drawnBlock,
                       !.nextBlock = d2.drawnBlock,
                       !.blockHeldDuringFall = FALSE,
                       !.heldBlock = <<>>,
                       !.currentSeed = d2.newSeed,
                       !.currentBag = d2.newBag,
                       !.levelSubject = 1]

\* the second draw of restartGame
restartDraw(s, d1) ==
  restartedState(s, d1, drawFromBag(d1.newSeed, d1.newBag))

\* restartGame that carries highScore forward without comparing it to score
restartGameKeepHigh(s) ==
  IF s.gameEnd
    THEN [restartDraw(s, drawFromBag(s.currentSeed, s.currentBag))
            EXCEPT !.highScore = s.highScore]
    ELSE s

\* restartGame without the gameEnd guard
restartGameAlways(s) ==
  restartDraw(s, drawFromBag(s.currentSeed, s.currentBag))

restartGame(s) ==
  IF s.gameEnd
    THEN restartDraw(s, drawFromBag(s.currentSeed, s.currentBag))
    ELSE s

(***************************************************************************)
(* main.ts: the reducer of source$ and the commands merged into actions$   *)
(***************************************************************************)
Actions == {"moveLeft", "moveRight", "moveDown", "tick", "rotateBlock",
            "moveHardDown", "restartGame", "holdBlock"}

\* action(state)
apply(action, s) ==
  CASE action = "moveLeft" -> moveLeft(s)
    [] action = "moveRight" -> moveRight(s)
    [] action = "moveDown" -> moveDown(s)
    [] action = "tick" -> tick(s)
    [] action = "rotateBlock" -> rotateBlock(s)
    [] action = "moveHardDown" -> moveHardDown(s)
    [] action = "restartGame" -> restartGame(s)
    [] action = "holdBlock" -> holdBlock(s)

\* the accumulator function without the gameEnd test
reducerAlways(state, action) == apply(action, state)

\* the accumulator function of scan: an ended game takes restartGame only
reducer(state, action) ==
  IF state.gameEnd /\ action # "restartGame" THEN state
  ELSE apply(action, state)

(***************************************************************************)
(* The state machine: the state of scan, one step per command.             *)
(***************************************************************************)
\* the current state as a State value (with the value of level$)
S ==
  [gameEnd |-> gameEnd, fallingBlock |-> fallingBlock,
   placedBlocks |-> placedBlocks, level |-> level,
   linesCleared |-> linesCleared, score |-> score, highScore |-> highScore,
   nextBlock |-> nextBlock, heldBlock |-> heldBlock,
   blockHeldDuringFall |-> blockHeldDuringFall, currentSeed |-> currentSeed,
   currentBag |-> currentBag, levelSubject |-> levelSubject]

\* the next state as a State value
SNext ==
  [gameEnd |-> gameEnd', fallingBlock |-> fallingBlock',
   placedBlocks |-> placedBlocks', level |-> level',
   linesCleared |-> linesCleared', score |-> score', highScore |-> highScore',
   nextBlock |-> nextBlock', heldBlock |-> heldBlock',
   blockHeldDuringFall |-> blockHeldDuringFall',
   currentSeed |-> currentSeed', currentBag |-> currentBag',
   levelSubject |-> levelSubject']

Become(n) ==
  /\ gameEnd' = n.gameEnd
  /\ fallingBlock' = n.fallingBlock
  /\ placedBlocks' = n.placedBlocks
  /\ level' = n.level
  /\ linesCleared' = n.linesCleared
  /\ score' = n.score
  /\ highScore' = n.highScore
  /\ nextBlock' = n.nextBlock
  /\ heldBlock' = n.heldBlock
  /\ blockHeldDuringFall' = n.blockHeldDuringFall
  /\ currentSeed' = n.currentSeed
  /\ currentBag' = n.currentBag
  /\ levelSubject' = n.levelSubject

Init ==
  /\ gameEnd = initialState.gameEnd
  /\ fallingBlock = initialState.fallingBlock
  /\ placedBlocks = initialState.placedBlocks
  /\ level = initialState.level
  /\ linesCleared = initialState.linesCleared
  /\ score = initialState.score
  /\ highScore = initialState.highScore
  /\ nextBlock = initialState.nextBlock
  /\ heldBlock = initialState.heldBlock
  /\ blockHeldDuringFall = initialState.blockHeldDuringFall
  /\ currentSeed = initialState.currentSeed
  /\ currentBag = initialState.currentBag
  /\ levelSubject = initialState.levelSubject
  /\ lastAction = "none"
  /\ pc = 0
  /\ devs = 0

\* A recorded game, as the commands arriving on actions$: it clears five
\* rows (level 2), stacks to the top, restarts, stacks to the top again
\* without clearing a row, and restarts.  It includes commands the engine
\* ignores: a second hold during one fall, a restart while running, and
\* commands after the game has ended.
Script ==
  << "moveLeft", "moveLeft", "moveHardDown", "moveRight", "moveHardDown",
     "holdBlock", "moveRight", "holdBlock", "moveRight", "moveRight",
     "moveHardDown", "rotateBlock", "restartGame", "moveLeft", "moveLeft",
     "moveLeft", "moveLeft", "moveHardDown", "rotateBlock", "moveRight",
     "moveRight", "moveRight", "moveRight", "moveHardDown", "holdBlock",
     "moveHardDown", "moveRight", "moveRight", "moveRight", "moveHardDown",
     "moveRight", "moveHardDown", "holdBlock", "moveLeft", "moveLeft",
     "moveLeft", "moveHardDown", "moveLeft", "moveHardDown", "holdBlock",
     "rotateBlock", "rotateBlock", "moveRight", "moveRight", "moveRight",
     "moveRight", "moveHardDown", "moveHardDown", "holdBlock", "moveLeft",
     "moveLeft", "moveLeft", "moveHardDown", "moveHardDown", "moveHardDown",
     "moveHardDown", "moveHardDown", "moveHardDown", "moveHardDown",
     "moveHardDown", "moveHardDown", "tick", "tick", "tick", "tick", "tick",
     "tick", "tick", "tick", "tick", "moveLeft", "rotateBlock", "holdBlock",
     "tick", "moveHardDown", "moveRight", "moveDown", "restartGame",
     "holdBlock", "moveHardDown", "moveHardDown", "moveHardDown",
     "moveHardDown", "moveHardDown", "moveHardDown", "moveHardDown",
     "moveHardDown", "moveHardDown", "moveDown", "moveDown", "moveDown",
     "moveDown", "moveDown", "moveDown", "moveDown", "restartGame" >>

\* the environment issues the next command of the recorded game
OnScript(action) ==
  /\ devs = 0
  /\ pc < Len(Script)
  /\ Script[pc + 1] = action

\* Command with a fault: a block that the command draws is of a kind taken
\* from outside the state
CommandUnseeded(action) ==
  /\ OnScript(action) \/ devs < MaxDevs
  /\ \E kind \in BlockType :
       Become([reducer(S, action) EXCEPT
                 !.nextBlock = IF @ = nextBlock THEN @
                               ELSE createFallingBlock(kind)])
  /\ pc' = IF OnScript(action) THEN pc + 1 ELSE pc
  /\ devs' = IF OnScript(action) THEN devs ELSE devs + 1

\* One command arrives on actions$ and scan applies the reducer to it.  The
\* environment follows the recorded game and leaves it by at most MaxDevs
\* arbitrary commands.
Command(action) ==
  /\ OnScript(action) \/ devs < MaxDevs
  /\ Become(reducer(S, action))
  /\ pc' = IF OnScript(action) THEN pc + 1 ELSE pc
  /\ devs' = IF OnScript(action) THEN devs ELSE devs + 1

MoveLeft ==
  /\ Command("moveLeft")
  /\ lastAction' = "moveLeft"

MoveRight ==
  /\ Command("moveRight")
  /\ lastAction' = "moveRight"

MoveDown ==
  /\ Command("moveDown")
  /\ lastAction' = "moveDown"

Tick ==
  /\ Command("tick")
  /\ lastAction' = "tick"

Rotate ==
  /\ Command("rotateBlock")
  /\ lastAction' = "rotateBlock"

HardDrop ==
  /\ Command("moveHardDown")
  /\ lastAction' = "moveHardDown"

Restart ==
  /\ Command("restartGame")
  /\ lastAction' = "restartGame"

Hold ==
  /\ Command("holdBlock")
  /\ lastAction' = "holdBlock"


Next ==
  \/ MoveLeft
  \/ MoveRight
  \/ MoveDown
  \/ Tick
  \/ Rotate
  \/ HardDrop
  \/ Restart
  \/ Hold

Spec == Init /\ [][Next]_vars

(***************************************************************************)
(* The bag on its own: shuffleBag and drawFromBag driven from bounded      *)
(* inputs, as types.ts drives them at start-up (a shuffle, draws, and a    *)
(* second shuffle after the start-up draws).  pc counts the operations.    *)
(***************************************************************************)
\* the draws of types.ts before the bag is shuffled again
StartUpDraws == 2

\* 181070632 is the seed whose exact a * seed + c is 2^31 - 1 modulo 2^31;
\* 5182133 is the first seed whose product needs more than 53 bits
SeedInputs == (0..MaxSeed) \cup {159, 5182133, 181070632, RNG_m1}

\* the bags of n distinct kinds
DistinctBags(n) ==
  {b \in [1..n -> BlockType] : \A i, j \in 1..n : b[i] = b[j] => i = j}

BagInputs == UNION {DistinctBags(n) : n \in 0..MaxBagLen}

InitBag ==
  /\ currentSeed \in SeedInputs
  /\ currentBag \in BagInputs
  /\ gameEnd = initialState.gameEnd
  /\ fallingBlock = initialState.fallingBlock
  /\ placedBlocks = initialState.placedBlocks
  /\ level = initialState.level
  /\ linesCleared = initialState.linesCleared
  /\ score = initialState.score
  /\ highScore = initialState.highScore
  /\ nextBlock = initialState.nextBlock
  /\ heldBlock = initialState.heldBlock
  /\ blockHeldDuringFall = initialState.blockHeldDuringFall
  /\ levelSubject = initialState.levelSubject
  /\ lastAction = "none"
  /\ pc = 0
  /\ devs = 0

\* const { drawnBlock, newSeed, newBag } = drawFromBag(seed, bag)
Draw ==
  /\ pc < MaxDraws
  /\ LET d == drawFromBag(currentSeed, currentBag)
     IN  /\ nextBlock' = d.drawnBlock
         /\ currentSeed' = d.newSeed
         /\ currentBag' = d.newBag
  /\ lastAction' = "drawFromBag"
  /\ pc' = pc + 1
  /\ UNCHANGED <<gameEnd, fallingBlock, placedBlocks, level, linesCleared,
                 score, highScore, heldBlock, blockHeldDuringFall,
                 levelSubject, devs>>

\* currentBag: shuffleBag(seed)
Shuffle ==
  /\ pc <= StartUpDraws
  /\ currentBag' = shuffleBag(currentSeed)
  /\ lastAction' = "shuffleBag"
  /\ pc' = pc + 1
  /\ UNCHANGED <<gameEnd, fallingBlock, placedBlocks, level, linesCleared,
                 score, highScore, nextBlock, heldBlock, blockHeldDuringFall,
                 currentSeed, levelSubject, devs>>

NextBag ==
  \/ Draw
  \/ Shuffle

SpecBag == InitBag /\ [][NextBag]_vars

(***************************************************************************)
(* The lock of a block on prepared grids: the state handed to              *)
(* handleBlockLocking and clearFullRows is drawn from a bounded set, with  *)
(* up to MaxWellDepth rows that lack only the columns under the spawn      *)
(* position, and every level and linesCleared the engine can hold.         *)
(***************************************************************************)
\* the columns a block of the kind falls through from its spawn position
\* (a line block after one rotation)
wellColumns(type) == IF type = LINE THEN {5} ELSE {4, 5}

\* rows from the bottom up: "full" lacks only the well, "part" has three
\* placed cells
RowPatterns ==
  UNION {[1..n -> {"full", "part"}] : n \in 0..MaxWellDepth}

\* the grid with the rows of the pattern at the bottom and two placed cells
\* in the row above them
patternGrid(pattern, well) ==
  [r \in 1..GRID_HEIGHT |->
     [c \in 1..GRID_WIDTH |->
        LET fromBottom == GRID_HEIGHT - r + 1
            filled == [placed |-> TRUE, colour |-> "#FFFF00"]
            empty == [placed |-> FALSE, colour |-> ""]
        IN  IF fromBottom <= Len(pattern)
              THEN IF c - 1 \in well THEN empty
                   ELSE IF pattern[fromBottom] = "full" THEN filled
                   ELSE IF c <= 3 THEN filled ELSE empty
            ELSE IF fromBottom = Len(pattern) + 1 /\ c <= 2 THEN filled
            ELSE empty]]

\* a grid stacked up to the second row: that row lacks only the two columns
\* under a square block at its spawn position, the rows below it lack the
\* first column
tallGrid ==
  [r \in 1..GRID_HEIGHT |->
     [c \in 1..GRID_WIDTH |->
        LET filled == [placed |-> TRUE, colour |-> "#FFFF00"]
            empty == [placed |-> FALSE, colour |-> ""]
        IN  IF r = 1 THEN empty
            ELSE IF r = 2
              THEN IF c - 1 \in wellColumns(SQUARE) THEN empty ELSE filled
            ELSE IF c = 1 THEN empty ELSE filled]]

\* a running game with the block at its spawn position over the grid
lockInput(type, pattern, lv, lc) ==
  [initialState EXCEPT
     !.fallingBlock = createFallingBlock(type),
     !.placedBlocks = patternGrid(pattern, wellColumns(type)),
     !.level = lv,
     !.linesCleared = lc,
     !.score = 100 * (LEVEL_UP_LINES * (lv - 1) + lc),
     !.levelSubject = lv]

LockInputs ==
  {lockInput(type, pattern, 1, 0) :
     type \in {SQUARE, LINE}, pattern \in RowPatterns}
  \cup {lockInput(LINE, [i \in 1..n |-> "full"], lv, lc) :
          n \in 0..MaxWellDepth, lv \in 1..6,
          lc \in 0..(LEVEL_UP_LINES - 1)}
  \cup {[lockInput(SQUARE, <<>>, 1, 0) EXCEPT !.placedBlocks = tallGrid]}

\* the recorded game is over; one command fewer than MaxDevs is left
InitLock ==
  /\ \E s \in LockInputs :
       /\ gameEnd = s.gameEnd
       /\ fallingBlock = s.fallingBlock
       /\ placedBlocks = s.placedBlocks
       /\ level = s.level
       /\ linesCleared = s.linesCleared
       /\ score = s.score
       /\ highScore = s.highScore
       /\ nextBlock = s.nextBlock
       /\ heldBlock = s.heldBlock
       /\ blockHeldDuringFall = s.blockHeldDuringFall
       /\ currentSeed = s.currentSeed
       /\ currentBag = s.currentBag
       /\ levelSubject = s.levelSubject
  /\ lastAction = "none"
  /\ pc = Len(Script)
  /\ devs = 1

SpecLock == InitLock /\ [][Next]_vars

(***************************************************************************)
(* Properties                                                              *)
(***************************************************************************)
\* the falling block has not left its spawn position
AtSpawn == fallingBlock = createFallingBlock(fallingBlock.type)

\* the step merges the falling block into the grid
LockStep ==
  /\ ~gameEnd
  /\ \/ lastAction' \in {"tick", "moveDown"} /\ collisionDetected(S)
     \/ lastAction' = "moveHardDown"

\* C1: once the game has ended, every command other than restart leaves the
\* whole state unchanged (so gameEnd stays true until a restart).
C1_EndedIgnoresCommands ==
  [][(gameEnd /\ lastAction' # "restartGame")
       => (gameEnd' /\ UNCHANGED stateVars)]_vars

\* a steering command was applied to an ended game
C1_Witness ==
  /\ gameEnd
  /\ lastAction \in {"moveLeft", "moveRight", "rotateBlock", "holdBlock"}

\* C2: restart of an ended game gives a running game with an empty grid,
\* score 0, level 1, no lines, nothing held, the high score the larger of
\* the old score and high score, and falling / next block, seed and bag from
\* two successive draws continuing the ended game's seed and bag.
C2_RestartOfEndedGame ==
  [][(gameEnd /\ lastAction' = "restartGame") =>
       LET d1 == drawFromBag(currentSeed, currentBag)
           d2 == drawFromBag(d1.newSeed, d1.newBag)
       IN  /\ gameEnd' = FALSE
           /\ placedBlocks' = emptyGrid
           /\ Len(placedBlocks') = 20
           /\ \A r \in DOMAIN placedBlocks' : Len(placedBlocks'[r]) = 10
           /\ score' = 0
           /\ level' = 1
           /\ linesCleared' = 0
           /\ heldBlock' = <<>>
           /\ blockHeldDuringFall' = FALSE
           /\ highScore' >= score
           /\ highScore' >= highScore
           /\ highScore' \in {score, highScore}
           /\ fallingBlock' = d1.drawnBlock
           /\ nextBlock' = d2.drawnBlock
           /\ currentSeed' = d2.newSeed
           /\ currentBag' = d2.newBag]_vars

\* a game that ended with a score above the high score has been restarted
C2_Witness ==
  /\ lastAction = "restartGame"
  /\ ~gameEnd
  /\ highScore = 500
  /\ score = 0
  /\ placedBlocks = emptyGrid
  /\ currentSeed # initialState.currentSeed

\* C3: restart of a running game changes nothing, the published level
\* included.
C3_RestartWhileRunning ==
  [][(~gameEnd /\ lastAction' = "restartGame") => UNCHANGED stateVars]_vars

\* restart was applied to a running game with blocks on the grid
C3_Witness ==
  /\ lastAction = "restartGame"
  /\ ~gameEnd
  /\ placedBlocks # emptyGrid

\* C4: a hold while blockHeldDuringFall is set changes nothing; the flag stays
\* set over every command that does not lock; every lock clears it, and the
\* hold after a lock is accepted again.
C4_OneHoldPerFall ==
  [][/\ (blockHeldDuringFall /\ lastAction' = "holdBlock")
          => UNCHANGED stateVars
     /\ (blockHeldDuringFall /\ ~LockStep) => blockHeldDuringFall'
     /\ LockStep =>
          /\ blockHeldDuringFall' = FALSE
          /\ holdBlock(SNext).blockHeldDuringFall
          /\ holdBlock(SNext).heldBlock
               = <<createFallingBlock(fallingBlock'.type)>>
     /\ (~gameEnd /\ ~blockHeldDuringFall /\ lastAction' = "holdBlock")
          => blockHeldDuringFall']_vars

\* a hold was refused: the block is off its spawn position after a hold
C4_Witness ==
  /\ lastAction = "holdBlock"
  /\ blockHeldDuringFall
  /\ ~AtSpawn
  /\ placedBlocks # emptyGrid

\* C5: an accepted hold swaps the held and the falling kind and leaves next
\* block, seed and bag alone when a block is held; with nothing held it holds
\* the falling kind, makes the next kind fall and refills the next block by
\* one draw.  It sets blockHeldDuringFall and leaves grid, score, level,
\* linesCleared, highScore and gameEnd alone.
C5_AcceptedHold ==
  [][(~gameEnd /\ ~blockHeldDuringFall /\ lastAction' = "holdBlock") =>
       /\ Len(heldBlock') = 1
       /\ heldBlock'[1].type = fallingBlock.type
       /\ IF Len(heldBlock) > 0
            THEN /\ fallingBlock'.type = heldBlock[1].type
                 /\ UNCHANGED <<nextBlock, currentSeed, currentBag>>
            ELSE LET d == drawFromBag(currentSeed, currentBag)
                 IN  /\ fallingBlock'.type = nextBlock.type
                     /\ nextBlock' = d.drawnBlock
                     /\ currentSeed' = d.newSeed
                     /\ currentBag' = d.newBag
       /\ blockHeldDuringFall' = TRUE
       /\ UNCHANGED <<placedBlocks, score, level, linesCleared, highScore,
                      gameEnd>>]_vars

\* the recorded game's hold after its first line clear: a block was held,
\* and the kinds were swapped
C5_Witness ==
  /\ devs = 0
  /\ pc = 25
  /\ lastAction = "holdBlock"
  /\ blockHeldDuringFall
  /\ AtSpawn
  /\ score = 100
  /\ Len(heldBlock) = 1

\* a sequence that holds each of the 7 kinds exactly once
IsPermutation(bag) ==
  /\ Len(bag) = 7
  /\ \A k \in BlockType : Cardinality({i \in DOMAIN bag : bag[i] = k}) = 1

\* C6: for every seed, shuffleBag(seed) has length 7 and holds each of the 7
\* kinds exactly once.
C6_ShuffleIsPermutation ==
  /\ IsPermutation(shuffleBag(currentSeed))
  /\ lastAction = "shuffleBag" => IsPermutation(currentBag)

\* a bag was shuffled into another order than the declaration order
C6_Witness ==
  /\ lastAction = "shuffleBag"
  /\ currentBag = shuffleBag(currentSeed)
  /\ currentBag # <<SQUARE, L_SHAPE1, L_SHAPE2, T_SHAPE, LINE, Z_SHAPE1,
                    Z_SHAPE2>>

\* bag without its element at position i (1-based), order kept
Without(bag, i) == SubSeq(bag, 1, i - 1) \o SubSeq(bag, i + 1, Len(bag))

\* the kinds drawn by calling drawFromBag until the bag is empty
RECURSIVE drawnUntilEmpty(_, _)
drawnUntilEmpty(seed, bag) ==
  IF Len(bag) = 0 THEN <<>>
  ELSE LET d == drawFromBag(seed, bag)
       IN  <<d.drawnBlock.type>> \o drawnUntilEmpty(d.newSeed, d.newBag)

\* C7: a draw from a non-empty bag removes exactly the drawn kind, keeps the
\* order of the others and advances the seed once; repeated draws take every
\* kind of the bag exactly once before it is empty; a draw from an empty bag
\* draws from shuffleBag(seed) with the seed advanced once more and leaves 6
\* kinds.
C7_DrawWithoutReplacement ==
  [][lastAction' = "drawFromBag" =>
       LET full == IF Len(currentBag) = 0 THEN shuffleBag(currentSeed)
                   ELSE currentBag
           seed1 == IF Len(currentBag) = 0 THEN hash(currentSeed)
                    ELSE currentSeed
           all == drawnUntilEmpty(currentSeed, currentBag)
       IN  /\ \E i \in DOMAIN full :
                /\ nextBlock' = createFallingBlock(full[i])
                /\ currentBag' = Without(full, i)
           /\ currentSeed' = hash(seed1)
           /\ Len(currentBag) = 0 => Len(currentBag') = 6
           /\ Len(all) = Len(currentBag)
           /\ \A i \in DOMAIN currentBag :
                Cardinality({j \in DOMAIN all : all[j] = currentBag[i]}) = 1
     ]_vars

\* a shuffled bag was drawn empty and the next draw refilled it
C7_Witness ==
  /\ lastAction = "drawFromBag"
  /\ pc = 9
  /\ Len(currentBag) = 6

\* the cells moved by dx, dy canvas pixels
shiftedCells(cells, dx, dy) ==
  [i \in DOMAIN cells |-> Cell(cells[i].x + dx, cells[i].y + dy)]

\* every cell, moved down one row, is above the bottom edge and on an
\* unplaced grid cell
FreeBelow ==
  \A i \in DOMAIN fallingBlock.cells :
    LET cell == fallingBlock.cells[i]
    IN  /\ cell.y + HEIGHT < CANVAS_HEIGHT
        /\ ~placedBlocks[(cell.y \div HEIGHT) + 2][(cell.x \div WIDTH) + 1]
              .placed

\* C8: a tick or soft drop of a running game moves the four cells down one
\* row when the row below every cell is free, and otherwise locks the block
\* where it is; grid, score, level, linesCleared and gameEnd of a running game
\* change by no command but such a lock or a hard drop.
C8_TickMovesOrLocks ==
  [][/\ (~gameEnd /\ lastAction' \in {"tick", "moveDown"}) =>
          IF FreeBelow
            THEN /\ fallingBlock'.cells
                      = shiftedCells(fallingBlock.cells, 0, HEIGHT)
                 /\ fallingBlock'.type = fallingBlock.type
                 /\ fallingBlock'.colour = fallingBlock.colour
                 /\ UNCHANGED <<gameEnd, placedBlocks, level, linesCleared,
                                score, highScore, nextBlock, heldBlock,
                                blockHeldDuringFall, currentSeed, currentBag,
                                levelSubject>>
            ELSE /\ SNext = handleBlockLocking(S)
                 /\ fallingBlock' = nextBlock
                 /\ \A i \in DOMAIN fallingBlock.cells :
                      LET cell == fallingBlock.cells[i]
                      IN  stampedGrid(S)[(cell.y \div HEIGHT) + 1]
                                        [(cell.x \div WIDTH) + 1]
                            = [placed |-> TRUE,
                               colour |-> fallingBlock.colour]
     /\ (~gameEnd /\ ~LockStep) =>
          UNCHANGED <<placedBlocks, score, level, linesCleared, gameEnd>>
     /\ (~gameEnd /\ lastAction' \in {"moveLeft", "moveRight", "rotateBlock",
                                      "holdBlock"}) =>
          UNCHANGED <<placedBlocks, score, level, linesCleared, gameEnd>>
    ]_vars

\* a tick locked a block: the next block is at its spawn position after it
C8_Witness ==
  /\ lastAction = "tick"
  /\ AtSpawn
  /\ ~gameEnd
  /\ placedBlocks # emptyGrid

\* tick applied until, and including, the first tick that locks
RECURSIVE tickUntilLock(_)
tickUntilLock(s) ==
  IF collisionDetected(s) THEN tick(s) ELSE tickUntilLock(tick(s))

\* C9: a hard drop of a running game gives the state that repeated ticks
\* give with the first tick that locks: same grid (the same stamped cells,
\* after the same line clearing), score, level, linesCleared, gameEnd,
\* blocks, seed and bag.
C9_HardDropIsTicks ==
  [][(~gameEnd /\ lastAction' = "moveHardDown")
       => SNext = tickUntilLock(S)]_vars

\* a hard drop was applied in a running game and the game goes on
C9_Witness ==
  /\ lastAction = "moveHardDown"
  /\ ~gameEnd
  /\ AtSpawn
  /\ placedBlocks # emptyGrid
  /\ score > 0

\* C10: move-left (move-right) of a running game shifts the four cells one
\* column to the left (right) exactly when the shifted block is a valid
\* position on the current grid, changing only the x coordinates; otherwise
\* the state is unchanged.
C10_MoveIffValid ==
  [][\A dir \in {"moveLeft", "moveRight"} :
       (~gameEnd /\ lastAction' = dir) =>
         LET dx == IF dir = "moveLeft" THEN 0 - WIDTH ELSE WIDTH
             shifted == [fallingBlock EXCEPT
                           !.cells = shiftedCells(fallingBlock.cells, dx, 0)]
         IN  IF isValidPosition(shifted, placedBlocks)
               THEN /\ fallingBlock' = shifted
                    /\ \A i \in DOMAIN fallingBlock.cells :
                         /\ fallingBlock'.cells[i].x
                              = fallingBlock.cells[i].x + dx
                         /\ fallingBlock'.cells[i].y
                              = fallingBlock.cells[i].y
                    /\ UNCHANGED <<gameEnd, placedBlocks, level,
                                   linesCleared, score, highScore, nextBlock,
                                   heldBlock, blockHeldDuringFall,
                                   currentSeed, currentBag, levelSubject>>
               ELSE UNCHANGED stateVars
    ]_vars

\* a block was moved left as far as the left edge of the grid
C10_Witness ==
  /\ lastAction = "moveLeft"
  /\ ~gameEnd
  /\ \E i \in DOMAIN fallingBlock.cells : fallingBlock.cells[i].x = 0

\* the falling block of the state, rotated about its pivot as rotateBlock
\* rotates it
rotatedFallingBlock ==
  [fallingBlock EXCEPT
     !.cells = generateRotatedCells(
                 fallingBlock.cells, fallingBlock.cells[2],
                 isHorizontalLineBlock(
                   {fallingBlock.cells[i].x :
                      i \in DOMAIN fallingBlock.cells}))]

\* the falling block moved by dx columns and dy rows
shiftedBlock(dx, dy) ==
  [fallingBlock EXCEPT
     !.cells = shiftedCells(fallingBlock.cells, dx * WIDTH, dy * HEIGHT)]

\* blocks to test: the falling block and its projection on the ground, moved
\* by up to MaxShift columns and rows, and every wall-kick candidate of the
\* rotated falling block
CandidateBlocks ==
  {shiftedBlock(dx, dy) : dx \in (0 - MaxShift)..MaxShift,
                          dy \in (0 - MaxShift)..MaxShift}
  \cup {[b EXCEPT !.cells = shiftedCells(b.cells, 0, dy * HEIGHT)] :
          b \in {getGhostBlockPosition(S)}, dy \in 0..MaxShift}
  \cup {kickedBlock(rotatedFallingBlock, lineBlockWallKickTests[k]) :
          k \in DOMAIN lineBlockWallKickTests}
  \cup {kickedBlock(rotatedFallingBlock, standardWallKickTests[k]) :
          k \in DOMAIN standardWallKickTests}

\* the cell is inside the board
InBoard(cell) ==
  /\ 0 <= cell.x /\ cell.x < GRID_WIDTH * WIDTH
  /\ 0 <= cell.y /\ cell.y < GRID_HEIGHT * HEIGHT

\* the cell is inside the board and the grid cell under it is not placed
FreeCell(cell) ==
  /\ InBoard(cell)
  /\ ~placedBlocks[(cell.y \div HEIGHT) + 1][(cell.x \div WIDTH) + 1].placed

\* C11: isValidPosition(block, grid) is true exactly when each of the four
\* cells of the block is inside the board and on a grid cell that is not
\* placed.
C11_ValidIffAllCellsFree ==
  \A block \in CandidateBlocks :
    /\ Len(block.cells) = 4
    /\ isValidPosition(block, placedBlocks)
         <=> \A i \in DOMAIN block.cells : FreeCell(block.cells[i])

\* isValidPosition decided all three ways in one state: a block is accepted,
\* one is refused for leaving the board and one, inside the board, for
\* lying on a placed cell
C11_Witness ==
  /\ \E block \in CandidateBlocks : isValidPosition(block, placedBlocks)
  /\ \E block \in CandidateBlocks :
       /\ ~isValidPosition(block, placedBlocks)
       /\ \E i \in DOMAIN block.cells : ~InBoard(block.cells[i])
  /\ \E block \in CandidateBlocks :
       /\ ~isValidPosition(block, placedBlocks)
       /\ \A i \in DOMAIN block.cells : InBoard(block.cells[i])
       /\ \E i \in DOMAIN block.cells : ~FreeCell(block.cells[i])

\* the rows the falling block can move down: the first distance at which
\* canMoveDown refuses
DropRows ==
  CHOOSE d \in 0..GRID_HEIGHT :
    /\ ~canMoveDown([S EXCEPT !.fallingBlock = shiftedBlock(0, d)])
    /\ \A e \in 0..(d - 1) :
         canMoveDown([S EXCEPT !.fallingBlock = shiftedBlock(0, e)])

\* the rows by which the step moves the falling block before it locks it: a
\* hard drop locks the block at its lowest position, a tick where it is
LockRows == IF lastAction' = "moveHardDown" THEN DropRows ELSE 0

\* the grid with the falling block, moved down by rows, stamped into it
stampedAt(rows) ==
  stampedGrid([S EXCEPT !.fallingBlock = shiftedBlock(0, rows)])

\* the rows of the grid that are entirely placed
FullRowsOf(grid) ==
  {r \in DOMAIN grid : \A c \in DOMAIN grid[r] : grid[r][c].placed}

\* C12: a lock removes exactly the k rows that are entirely placed after
\* stamping, puts k empty rows on top, keeps the other rows in their order
\* and unchanged, and adds 100 * k to score; with k = 0 score and
\* linesCleared are unchanged.
C12_LockClearsFullRows ==
  [][LockStep =>
       \A rows \in {LockRows} : \A grid \in {stampedAt(rows)} :
       \A full \in {FullRowsOf(grid)} : \A k \in {Cardinality(full)} :
         /\ Len(placedBlocks') = GRID_HEIGHT
         /\ \A r \in 1..k : \A c \in 1..GRID_WIDTH :
              placedBlocks'[r][c] = [placed |-> FALSE, colour |-> ""]
         /\ \A r \in DOMAIN grid \ full :
              placedBlocks'[r + Cardinality({f \in full : f > r})]
                = grid[r]
         /\ score' = score + 100 * k
         /\ k = 0 => (score' = score /\ linesCleared' = linesCleared)
    ]_vars

\* a hard drop cleared three rows that were not adjacent: the row between
\* them, with its three placed cells, is now the bottom row
C12_Witness ==
  /\ lastAction = "moveHardDown"
  /\ score = 300
  /\ linesCleared = 3
  /\ placedBlocks[GRID_HEIGHT][1].placed
  /\ ~placedBlocks[GRID_HEIGHT][5].placed
  /\ placedBlocks[GRID_HEIGHT][6].placed

\* C13: a lock that clears k rows with linesCleared + k >= 5 makes level
\* min(level + 1, 6) and linesCleared 0, any other lock leaves level and adds
\* k to linesCleared; level stays in 1..6 and linesCleared in 0..4, and level
\* decreases by no command but restart.
C13_LevelUp ==
  [][/\ LockStep =>
          \A k \in {Cardinality(FullRowsOf(stampedAt(LockRows)))} :
            IF linesCleared + k >= 5
              THEN /\ level' = IF level + 1 > 6 THEN 6 ELSE level + 1
                   /\ linesCleared' = 0
              ELSE /\ level' = level
                   /\ linesCleared' = linesCleared + k
     /\ level \in 1..6 /\ level' \in 1..6
     /\ linesCleared \in 0..4 /\ linesCleared' \in 0..4
     /\ lastAction' # "restartGame" => level' >= level
    ]_vars

\* at level 6 with 4 lines counted, a hard drop cleared 4 rows: the level is
\* still 6 and the count is back to 0
C13_Witness ==
  /\ lastAction = "moveHardDown"
  /\ level = 6
  /\ linesCleared = 0
  /\ score = 3300

\* C14: a lock makes gameEnd true exactly when one of the cells it stamps is
\* in row 0, whether or not it clears rows; no other step of a running game
\* makes gameEnd true.
C14_GameEndsAtRowZero ==
  [][/\ LockStep =>
          \A rows \in {LockRows} :
            gameEnd' = \E i \in DOMAIN fallingBlock.cells :
                         (fallingBlock.cells[i].y \div HEIGHT) + rows = 0
     /\ (~gameEnd /\ gameEnd') => LockStep
    ]_vars

\* a lock with cells in row 0 completed the row below it: that row was
\* cleared and the game has ended
C14_Witness ==
  /\ gameEnd
  /\ lastAction \in {"tick", "moveDown", "moveHardDown"}
  /\ score = 100
  /\ linesCleared = 1
  /\ \E c \in 1..GRID_WIDTH : placedBlocks[2][c].placed
  /\ \A c \in 1..GRID_WIDTH : ~placedBlocks[1][c].placed

\* C15: rotate applied to a state whose falling block is a square returns
\* the state unchanged, wherever the block is.
C15_SquareDoesNotRotate ==
  [][/\ (~gameEnd /\ fallingBlock.type = SQUARE
           /\ lastAction' = "rotateBlock") => UNCHANGED stateVars
     /\ fallingBlock.type = SQUARE =>
          \A dx \in (0 - MaxShift)..MaxShift, dy \in 0..MaxShift :
            \A s \in {[S EXCEPT !.fallingBlock = shiftedBlock(dx, dy)]} :
              rotateBlock(s) = s
    ]_vars

\* rotate was applied to a square block that had been moved from its spawn
\* position, over a grid with placed cells
C15_Witness ==
  /\ lastAction = "rotateBlock"
  /\ ~gameEnd
  /\ fallingBlock.type = SQUARE
  /\ ~AtSpawn
  /\ placedBlocks # emptyGrid

BagKinds == {currentBag[i] : i \in DOMAIN currentBag}

\* C17: the kinds drawn since the last reshuffle and the kinds in currentBag
\* are together the 7 kinds, none twice: the bag holds no kind twice and,
\* once a kind has been drawn from it, not the kind drawn last (nextBlock);
\* in the initial state currentBag is what the two start-up draws left, 5
\* kinds without those of fallingBlock and nextBlock.
C17_BagEpoch ==
  /\ Cardinality(BagKinds) = Len(currentBag)
  /\ Len(currentBag) < 7 => nextBlock.type \notin BagKinds
  /\ S = initialState =>
       /\ Len(currentBag) = 5
       /\ fallingBlock.type \notin BagKinds
       /\ nextBlock.type \notin BagKinds

\* C18 as stated: scale(h) is in [0, 1) for every h in [0, 2^31), here the
\* current seed, so that floor(scale(h)) = 0; and for every n in 1..7 the
\* index floor(scale(hash(seed)) * n) is in 0..n-1.
C18_ScaleBelowOne ==
  /\ scaleIndex(currentSeed, 1) = 0
  /\ \A n \in 1..7 : scaleIndex(hash(currentSeed), n) \in 0..(n - 1)

\* C18, amended: scale(h) is in [0, 1) for every h below 2^31 - 1 and is 1
\* for h = 2^31 - 1; hash returns 2^31 - 1 for no seed, so for every n in
\* 1..7 the index floor(scale(hash(seed)) * n) is in 0..n-1 and the kind
\* drawn is defined.
C18_IndexInRange ==
  /\ currentSeed < RNG_m1 => scaleIndex(currentSeed, 1) = 0
  /\ currentSeed = RNG_m1 => scaleIndex(currentSeed, 1) = 1
  /\ hash(currentSeed) < RNG_m1
  /\ \A n \in 1..7 : scaleIndex(hash(currentSeed), n) \in 0..(n - 1)
  /\ Len(currentBag) > 0 =>
       At(currentBag, scaleIndex(hash(currentSeed), Len(currentBag)))
         \in BlockType
  /\ lastAction = "drawFromBag" => nextBlock.type \in BlockType

\* a kind was drawn with seed 181070632, the seed for which a * seed + c is
\* 2^31 - 1 modulo 2^31 in integer arithmetic
C18_Witness ==
  /\ lastAction = "drawFromBag"
  /\ pc = 1
  /\ currentSeed = hash(181070632)
  /\ currentSeed # hashExact(181070632)
  /\ hashExact(181070632) = RNG_m1

\* the placed cells of a grid, as <<row, column>> pairs
PlacedCells(grid) ==
  {rc \in (1..GRID_HEIGHT) \X (1..GRID_WIDTH) : grid[rc[1]][rc[2]].placed}

\* C19: at every lock each of the four grid cells the falling block is
\* stamped on was unplaced before the lock, so the stamping adds exactly 4
\* placed cells and leaves every cell that was placed as it was.
C19_LockStampsFreeCells ==
  [][LockStep =>
       \A rows \in {LockRows} : \A grid \in {stampedAt(rows)} :
         /\ \A i \in DOMAIN fallingBlock.cells :
              ~placedBlocks[(fallingBlock.cells[i].y \div HEIGHT) + rows + 1]
                           [(fallingBlock.cells[i].x \div WIDTH) + 1].placed
         /\ Cardinality(PlacedCells(grid))
              = Cardinality(PlacedCells(placedBlocks)) + 4
         /\ \A rc \in PlacedCells(placedBlocks) :
              grid[rc[1]][rc[2]] = placedBlocks[rc[1]][rc[2]]
    ]_vars

\* the index pairs <<yIndex, xIndex>> of the grid
GridIndices == (0..(GRID_HEIGHT - 1)) \X (0..(GRID_WIDTH - 1))

\* the index pairs canMove("left") and canMove("right") read for the block:
\* one per cell whose new column is inside the canvas
moveAccesses(block) ==
  {<<block.cells[i].y \div HEIGHT,
     (block.cells[i].x + offsetX(direction)) \div WIDTH>> :
     <<i, direction>> \in
       {p \in (DOMAIN block.cells) \X {"left", "right"} :
          /\ block.cells[p[1]].x + offsetX(p[2]) >= 0
          /\ block.cells[p[1]].x + offsetX(p[2]) < CANVAS_WIDTH}}

\* the index pairs canMoveDown and tick read for the block: one per cell
\* whose new row is above the canvas bottom
downAccesses(block) ==
  {<<(block.cells[i].y + HEIGHT) \div HEIGHT, block.cells[i].x \div WIDTH>> :
     i \in {j \in DOMAIN block.cells :
              block.cells[j].y + HEIGHT < CANVAS_HEIGHT}}

\* the index pairs handleBlockLocking writes for the block
lockAccesses(block) ==
  {<<block.cells[i].y \div HEIGHT, block.cells[i].x \div WIDTH>> :
     i \in DOMAIN block.cells}

\* C20: in every reachable state each cell of the falling block has its
\* column index in 0..GRID_WIDTH-1 and its row index in 0..GRID_HEIGHT-1,
\* and every grid index the moves, the tick, the hard drop, the ghost
\* projection and the lock use, at every distance down to the block's
\* lowest position, is inside the 20x10 grid.
C20_AccessesInGrid ==
  /\ \A i \in DOMAIN fallingBlock.cells : InBoard(fallingBlock.cells[i])
  /\ moveAccesses(fallingBlock) \subseteq GridIndices
  /\ \A rows \in {DropRows} :
       /\ \A d \in 0..rows : \A block \in {shiftedBlock(0, d)} :
            /\ downAccesses(block) \subseteq GridIndices
            /\ lockAccesses(block) \subseteq GridIndices
       /\ \A ghost \in {getGhostBlockPosition(S)} :
            /\ ghost = shiftedBlock(0, rows)
            /\ \A i \in DOMAIN ghost.cells : InBoard(ghost.cells[i])

\* a running game whose falling block touches the left wall while its
\* lowest position is on the floor: the moves meet the canvas edge and the
\* drop and the lock reach the last row
C20_Witness ==
  /\ ~gameEnd
  /\ \E i \in DOMAIN fallingBlock.cells : fallingBlock.cells[i].x = 0
  /\ \E rows \in {DropRows} :
       /\ rows > 0
       /\ \E i \in DOMAIN fallingBlock.cells :
            fallingBlock.cells[i].y \div HEIGHT + rows = GRID_HEIGHT - 1

\* the falling block has 4 distinct x coordinates: a Line lying flat
HorizontalLine ==
  Cardinality({fallingBlock.cells[i].x : i \in DOMAIN fallingBlock.cells}) = 4

\* the cells of the falling block turned about its second cell: an offset
\* (dx, dy) from the pivot becomes (dy, -dx) for a Line lying flat and
\* (-dy, dx) for every other block
RotationCandidate ==
  [i \in DOMAIN fallingBlock.cells |->
     LET dx == fallingBlock.cells[i].x - fallingBlock.cells[2].x
         dy == fallingBlock.cells[i].y - fallingBlock.cells[2].y
     IN  IF HorizontalLine
           THEN Cell(fallingBlock.cells[2].x + dy, fallingBlock.cells[2].y - dx)
           ELSE Cell(fallingBlock.cells[2].x - dy, fallingBlock.cells[2].y + dx)]

\* every cell is inside the board and on an unplaced grid cell
AllFree(cells) == \A i \in DOMAIN cells : FreeCell(cells[i])

\* the step applies rotate to a running game whose falling block is not a
\* square
RotateStep ==
  /\ ~gameEnd
  /\ lastAction' = "rotateBlock"
  /\ fallingBlock.type # SQUARE

KickOffsets ==
  IF HorizontalLine
    THEN << <<0, 0>>, <<0 - 1, 0>>, <<2, 0>>, <<0 - 2, 0>>,
            <<0, 1>>, <<0, 0 - 1>>, <<0 - 1, 2>>, <<1, 0 - 2>> >>
    ELSE << <<0, 0>>, <<1, 0>>, <<0 - 1, 0>>, <<2, 0>>, <<0 - 2, 0>> >>

\* the turned cells moved by the k-th wall-kick offset
KickedCandidate(k) ==
  shiftedCells(RotationCandidate, KickOffsets[k][1] * WIDTH,
               KickOffsets[k][2] * HEIGHT)

\* the positions in KickOffsets that give a valid position
ValidKicks == {k \in DOMAIN KickOffsets : AllFree(KickedCandidate(k))}

\* the smallest element of a non-empty set of numbers
Least(set) == CHOOSE k \in set : \A j \in set : k <= j

\* C22: when the turned cells of a non-square block are not a valid
\* position, rotate commits the first wall-kick offset, in the fixed order of
\* the list for the block (a Line lying flat before the rotation, or any
\* other block), whose shifted cells are a valid position; nothing else in
\* the state changes, and if no offset gives a valid position the state is
\* unchanged.
C22_FirstValidWallKick ==
  [][(RotateStep /\ ~AllFree(RotationCandidate)) =>
       \A kicks \in {ValidKicks} :
         IF kicks = {}
           THEN UNCHANGED stateVars
           ELSE SNext = [S EXCEPT !.fallingBlock.cells =
                                    KickedCandidate(Least(kicks))]
    ]_vars

\* a rotate step that needs a wall kick and has two or more offsets to
\* choose from
KickChoice ==
  /\ RotateStep
  /\ ~AllFree(RotationCandidate)
  /\ Cardinality(ValidKicks) >= 2

\* the cells from which a rotation in place would have put the falling
\* block where it is: the inverse of the turn about the second cell (a Line
\* standing up was lying flat before)
PlainPreimage ==
  [i \in DOMAIN fallingBlock.cells |->
     LET dx == fallingBlock.cells[i].x - fallingBlock.cells[2].x
         dy == fallingBlock.cells[i].y - fallingBlock.cells[2].y
         wasFlat == Cardinality({fallingBlock.cells[j].y :
                                   j \in DOMAIN fallingBlock.cells}) = 4
     IN  IF wasFlat
           THEN Cell(fallingBlock.cells[2].x - dy, fallingBlock.cells[2].y + dx)
           ELSE Cell(fallingBlock.cells[2].x + dy, fallingBlock.cells[2].y - dx)]

\* the T block at its spawn position after rotate has turned it and moved
\* it two columns to the right, the fourth offset of the list
kickedTShape ==
  [tShapeBlock EXCEPT
     !.cells = shiftedCells(
                 generateRotatedCells(tShapeBlock.cells,
                                      tShapeBlock.cells[2], FALSE),
                 2 * WIDTH, 0)]

\* rotate has just moved a T block from its spawn position to where the
\* fourth offset puts it; the block cannot have been turned into that place
\* without a kick, because the cells it would have come from are not all
\* free (the stack has grown into the spawn rows)
C22_Witness ==
  /\ lastAction = "rotateBlock"
  /\ ~gameEnd
  /\ fallingBlock = kickedTShape
  /\ ~AllFree(PlainPreimage)

\* every step that leads to a state of C22_Witness is a rotate of the T
\* block at its spawn position that found the turned cells and the first
\* three offsets invalid, with the fourth and the fifth valid
C22_WitnessIsKick ==
  [][C22_Witness' =>
       /\ RotateStep
       /\ AtSpawn
       /\ ~AllFree(RotationCandidate)
       /\ ValidKicks = {4, 5}
    ]_vars

\* the cells of a block turned in place about its second cell
turnedCells(cells) ==
  [i \in DOMAIN cells |->
     LET dx == cells[i].x - cells[2].x
         dy == cells[i].y - cells[2].y
     IN  IF Cardinality({cells[j].x : j \in DOMAIN cells}) = 4
           THEN Cell(cells[2].x + dy, cells[2].y - dx)
           ELSE Cell(cells[2].x - dy, cells[2].y + dx)]

\* the first n of the successive rotations in place of the cells are all
\* valid positions: rotate commits each of them without a wall kick
RECURSIVE PlainRotations(_, _)
PlainRotations(cells, n) ==
  \/ n = 0
  \/ \A turned \in {turnedCells(cells)} :
       AllFree(turned) /\ PlainRotations(turned, n - 1)

\* the state after n successive rotate commands
RECURSIVE rotatedTimes(_, _)
rotatedTimes(s, n) ==
  IF n = 0 THEN s ELSE rotatedTimes(reducer(s, "rotateBlock"), n - 1)

\* C23: for a Line and for every other non-square block, four successive
\* rotate commands that are each committed without a wall kick leave the
\* block on exactly the cells it had before the first of them (and the
\* rest of the state as it was).
C23_FourRotations ==
  (~gameEnd /\ fallingBlock.type # SQUARE
     /\ PlainRotations(fallingBlock.cells, 4))
    => rotatedTimes(S, 4) = S

\* a running game whose falling Line, away from its spawn position and over
\* placed cells, can be turned four times without a kick, the first turn
\* moving it to other cells
C23_Witness ==
  /\ ~gameEnd
  /\ fallingBlock.type = LINE
  /\ ~AtSpawn
  /\ placedBlocks # emptyGrid
  /\ PlainRotations(fallingBlock.cells, 4)
  /\ rotatedTimes(S, 1).fallingBlock.cells # fallingBlock.cells
  /\ rotatedTimes(S, 4) = S

\* the falling block can be moved down by every distance 1..d: each shift
\* keeps the four cells above the bottom edge and on unplaced cells
FreeDown(d) ==
  \A e \in 1..d : AllFree(shiftedCells(fallingBlock.cells, 0, e * HEIGHT))

\* the largest d >= 0 with FreeDown(d)
GhostRows ==
  CHOOSE d \in 0..GRID_HEIGHT :
    /\ ~AllFree(shiftedCells(fallingBlock.cells, 0, (d + 1) * HEIGHT))
    /\ FreeDown(d)

\* C24: in every reachable state the ghost block is the falling block moved
\* straight down by the largest d >= 0 such that every shift by 1..d rows
\* keeps all cells above the bottom edge and on unplaced cells, with kind
\* and colour unchanged; a hard drop from the state stamps exactly the
\* cells of the ghost block: its result is the lock of the state with the
\* ghost block as falling block.
C24_GhostIsHardDropTarget ==
  /\ [](\A d \in {GhostRows} : getGhostBlockPosition(S) = shiftedBlock(0, d))
  /\ [][(~gameEnd /\ lastAction' = "moveHardDown") =>
          \A ghost \in {getGhostBlockPosition(S)} :
            /\ SNext = handleBlockLocking([S EXCEPT !.fallingBlock = ghost])
            /\ \A grid \in {stampedGrid([S EXCEPT !.fallingBlock = ghost])} :
                 /\ \A i \in DOMAIN ghost.cells :
                      grid[(ghost.cells[i].y \div HEIGHT) + 1]
                          [(ghost.cells[i].x \div WIDTH) + 1]
                        = [placed |-> TRUE, colour |-> fallingBlock.colour]
                 /\ FullRowsOf(grid) = {} => placedBlocks' = grid
       ]_vars

\* a hard drop has just stamped a block, without clearing a row, onto a
\* stack of placed cells, and the ghost block of the new falling block lies
\* lower than the block, resting on the stack above the floor
C24_Witness ==
  /\ lastAction = "moveHardDown"
  /\ ~gameEnd
  /\ score = 0
  /\ \A ghost \in {getGhostBlockPosition(S)} :
       /\ ghost # fallingBlock
       /\ \A i \in DOMAIN ghost.cells :
            ghost.cells[i].y \div HEIGHT < GRID_HEIGHT - 1

\* C25: in every reachable state of a running game the falling block is in
\* a position accepted by isValidPosition: none of its four cells lies on a
\* placed grid cell, also right after a lock or a hold has put a block at
\* the spawn position.
C25_FallingBlockOnFreeCells ==
  ~gameEnd =>
    /\ isValidPosition(fallingBlock, placedBlocks)
    /\ AllFree(fallingBlock.cells)

\* C26: in every reachable state the placed grid has exactly GRID_HEIGHT
\* rows of GRID_WIDTH cells and no row is entirely placed: the rows a lock
\* fills are removed before the state the lock returns.
C26_GridShapeNoFullRow ==
  /\ Len(placedBlocks) = GRID_HEIGHT
  /\ \A r \in DOMAIN placedBlocks : Len(placedBlocks[r]) = GRID_WIDTH
  /\ FullRowsOf(placedBlocks) = {}

\* before its 24th command the recorded game has no score: the state of
\* C26_Witness follows a lock that filled a row
C26_WitnessFollowsClear == (pc = 23 /\ devs = 0) => score = 0

\* the state after the 24th command of the recorded game, a hard drop that
\* filled a row: the score went from 0 to 100, the grid still holds placed
\* cells and its top row is empty
C26_Witness ==
  /\ pc = 24
  /\ devs = 0
  /\ lastAction = "moveHardDown"
  /\ score = 100
  /\ linesCleared = 1
  /\ placedBlocks # emptyGrid
  /\ \A c \in DOMAIN placedBlocks[1] : ~placedBlocks[1][c].placed

\* at most n tick commands lock the falling block of the running state s:
\* every tick that finds no collision moves the block down one row and
\* leaves the rest of the state alone, and a tick that finds a collision
\* within the n locks the block (tick calls handleBlockLocking then)
RECURSIVE locksWithin(_, _)
locksWithin(s, n) ==
  /\ n > 0
  /\ IF collisionDetected(s)
       THEN TRUE
       ELSE \A next \in {reducer(s, "tick")} :
              /\ next.fallingBlock =
                   [s.fallingBlock EXCEPT
                      !.cells = shiftedCells(s.fallingBlock.cells, 0, HEIGHT)]
              /\ next.placedBlocks = s.placedBlocks
              /\ next.gameEnd = s.gameEnd
              /\ next.nextBlock = s.nextBlock
              /\ locksWithin(next, n - 1)

\* C27: from every reachable state of a running game, tick commands alone
\* lock the falling block after at most GRID_HEIGHT ticks: every tick moves
\* the block down one row or locks it.
C27_TicksLockTheBlock ==
  [](~gameEnd => \A s \in {S} : locksWithin(s, GRID_HEIGHT))

\* a running game whose falling block needs all GRID_HEIGHT ticks: 19 ticks
\* take it from the top row to the floor and the 20th locks it
C27_Witness ==
  /\ ~gameEnd
  /\ \A s \in {S} :
       locksWithin(s, GRID_HEIGHT) /\ ~locksWithin(s, GRID_HEIGHT - 1)

====
